---- MODULE Spec2Model ----
(***************************************************************************)
(* Model of the syllabus scheduler of src/main.py: the calendar builder    *)
(* generate_ical_file_tool, the extractor                                  *)
(* extract_deadlines_from_syllabus_tool and the orchestrator               *)
(* process_syllabus.                                                       *)
(*                                                                         *)
(* Python strings are sequences of one-character strings, so that          *)
(* str.isalnum, str.replace, str.strip, datetime.strptime and the f-string *)
(* of the event title are computed character by character.                 *)
(***************************************************************************)
EXTENDS Integers, Sequences, FiniteSets, TLC

VARIABLES
    course_name,    \* course_name[p]: argument of invocation p of the builder
    deadlines,      \* deadlines[p]: argument of invocation p of the builder
    pc,             \* pc[p]: position of invocation p in generate_ical_file_tool
    idx,            \* idx[p]: index of the next item of the for loop
    cal,            \* cal[p]: cal.events, a set of Event objects, each with its identity
    out,            \* out[p]: the lines iter(cal) yields to f.writelines
    offset,         \* offset[p]: file position of the descriptor f of p
    filepath,       \* filepath[p]: local variable filepath
    ret,            \* ret[p]: value returned by invocation p
    exc,            \* exc[p]: exception that left invocation p, or "none"
    dirs,           \* directories existing on disk
    fs,             \* files on disk: path -> sequence of units
    log,            \* the opens and closes of the file so far, in order
    syllabus_text,  \* argument of process_syllabus
    model_reply,    \* what model.generate_content does when it is called
    response,       \* local variable response of the extractor
    ext_pc,         \* position in extract_deadlines_from_syllabus_tool
    ext_exc,        \* exception raised in the try block of the extractor
    extracted_data, \* value the extractor returned
    ps_pc,          \* position in process_syllabus
    ps_result       \* the triple process_syllabus returned

builderVars == <<course_name, deadlines, pc, idx, cal, out, offset,
                 filepath, ret, exc, dirs, fs, log>>

pipelineVars == <<syllabus_text, model_reply, response, ext_pc, ext_exc,
                  extracted_data, ps_pc, ps_result>>

vars == <<builderVars, pipelineVars>>

----------------------------------------------------------------------------
(* Bounds of the model. *)

\* longest deadlines list handed to the builder
MaxRecords == 2

----------------------------------------------------------------------------
(* Characters and strings. *)

Digits == {"0", "1", "2", "3", "4", "5", "6", "7", "8", "9"}

Letters == {"A", "B", "C", "E", "I", "O", "P", "Q", "S",
            "a", "c", "d", "e", "g", "h", "i", "j", "l", "m", "n", "o", "r",
            "s", "t", "u", "x", "z"}

DigitVal(c) ==
    CASE c = "0" -> 0 [] c = "1" -> 1 [] c = "2" -> 2 [] c = "3" -> 3
      [] c = "4" -> 4 [] c = "5" -> 5 [] c = "6" -> 6 [] c = "7" -> 7
      [] c = "8" -> 8 [] c = "9" -> 9

\* IsAlnum with "_" taken for a word character, as the regular expression \w does
IsWordChar(c) == c \in Letters \cup Digits \cup {"_"}

\* str.isalnum on one character of the model's alphabet
IsAlnum(c) == c \in Letters \cup Digits

\* "".join(c for c in course_name if c.isalnum())
RECURSIVE SafeCourseName(_)
SafeCourseName(s) ==
    IF s = <<>> THEN <<>>
    ELSE (IF IsAlnum(Head(s)) THEN <<Head(s)>> ELSE <<>>)
         \o SafeCourseName(Tail(s))

\* default value of the parameter output_dir
OutputDir == <<"c", "a", "l", "e", "n", "d", "a", "r", "s">>

ScheduleSuffix == <<"_", "s", "c", "h", "e", "d", "u", "l", "e", ".", "i", "c", "s">>

\* os.path.join(output_dir, f"{safe_course_name}_schedule.ics")
FilePath(course) == OutputDir \o <<"/">> \o SafeCourseName(course) \o ScheduleSuffix

\* f"[{course_name}] - {item['assignment_name']} ({item['assignment_type']})"
EventName(course, name, type) ==
    <<"[">> \o course \o <<"]", " ", "-", " ">> \o name \o <<" ", "(">> \o type \o <<")">>

----------------------------------------------------------------------------
(* datetime.strptime(s, "%Y-%m-%d").date()                                 *)

AllDigits(s) == \A k \in 1..Len(s) : s[k] \in Digits

RECURSIVE NumVal(_)
NumVal(s) == IF s = <<>> THEN 0
             ELSE 10 * NumVal(SubSeq(s, 1, Len(s) - 1)) + DigitVal(s[Len(s)])

\* positions of the "-" separators of s
Hyphens(s) == {k \in 1..Len(s) : s[k] = "-"}

\* the directive %m, the regular expression 1[0-2]|0[1-9]|[1-9]
MatchesMonth(s) ==
    \/ Len(s) = 2 /\ s[1] = "1" /\ s[2] \in {"0", "1", "2"}
    \/ Len(s) = 2 /\ s[1] = "0" /\ s[2] \in Digits \ {"0"}
    \/ Len(s) = 1 /\ s[1] \in Digits \ {"0"}

\* the directive %d, the regular expression 3[01]|[12]\d|0[1-9]|[1-9]| [1-9]
MatchesDay(s) ==
    \/ Len(s) = 2 /\ s[1] = "3" /\ s[2] \in {"0", "1"}
    \/ Len(s) = 2 /\ s[1] \in {"1", "2"} /\ s[2] \in Digits
    \/ Len(s) = 2 /\ s[1] \in {"0", " "} /\ s[2] \in Digits \ {"0"}
    \/ Len(s) = 1 /\ s[1] \in Digits \ {"0"}

IsLeap(y) == (y % 4 = 0 /\ y % 100 # 0) \/ y % 400 = 0

DaysInMonth(y, m) ==
    IF m = 2 THEN (IF IsLeap(y) THEN 29 ELSE 28)
    ELSE IF m \in {4, 6, 9, 11} THEN 30 ELSE 31

NoDate == [y |-> 0, m |-> 0, d |-> 0]

\* Strptime with the fields read in the order year, day, month
StrptimeDayFirst(s) ==
    LET h == Hyphens(s) IN
    IF Cardinality(h) # 2 THEN NoDate
    ELSE
      LET h1 == CHOOSE k \in h : \A j \in h : k <= j
          h2 == CHOOSE k \in h : \A j \in h : j <= k
          ys == SubSeq(s, 1, h1 - 1)
          ds == SubSeq(s, h1 + 1, h2 - 1)
          ms == SubSeq(s, h2 + 1, Len(s))
      IN IF /\ Len(ys) = 4 /\ AllDigits(ys)
            /\ MatchesMonth(ms)
            /\ MatchesDay(ds)
            /\ NumVal(ys) >= 1
            /\ NumVal(ds) <= DaysInMonth(NumVal(ys), NumVal(ms))
         THEN [y |-> NumVal(ys), m |-> NumVal(ms), d |-> NumVal(ds)]
         ELSE NoDate

\* the date strptime returns, or NoDate where it raises ValueError
Strptime(s) ==
    LET h == Hyphens(s) IN
    IF Cardinality(h) # 2 THEN NoDate
    ELSE
      LET h1 == CHOOSE k \in h : \A j \in h : k <= j
          h2 == CHOOSE k \in h : \A j \in h : j <= k
          ys == SubSeq(s, 1, h1 - 1)
          ms == SubSeq(s, h1 + 1, h2 - 1)
          ds == SubSeq(s, h2 + 1, Len(s))
          dd == IF ds # <<>> /\ ds[1] = " " THEN Tail(ds) ELSE ds
      IN IF /\ Len(ys) = 4 /\ AllDigits(ys)
            /\ MatchesMonth(ms)
            /\ MatchesDay(ds)
            /\ NumVal(ys) >= 1
            /\ NumVal(dd) <= DaysInMonth(NumVal(ys), NumVal(ms))
         THEN [y |-> NumVal(ys), m |-> NumVal(ms), d |-> NumVal(dd)]
         ELSE NoDate

----------------------------------------------------------------------------
(* JSON values and deadline records. *)

Str(s) == [t |-> "str", s |-> s]
Num(s) == [t |-> "num", s |-> s]
Null == [t |-> "null", s |-> <<>>]

Rec(name, due, type) ==
    [assignment_name |-> Str(name), due_date |-> due, assignment_type |-> Str(type)]

Quiz == <<"Q", "u", "i", "z">>
Exam == <<"E", "x", "a", "m">>

Date1 == <<"2", "0", "2", "5", "-", "1", "0", "-", "0", "1">>
Date2 == <<"2", "0", "2", "5", "-", "0", "9", "-", "1", "5">>
DateShort == <<"2", "0", "2", "4", "-", "2", "-", "2", "9">>
DateRange == <<"2", "0", "2", "5", "-", "1", "3", "-", "4", "0">>
DateFeb30 == <<"2", "0", "2", "5", "-", "0", "2", "-", "3", "0">>
DateWords == <<"O", "c", "t", " ", "1">>

RecA == Rec(<<"A">>, Str(Date1), Quiz)
RecB == Rec(<<"B">>, Str(Date2), Exam)
RecShort == Rec(<<"C">>, Str(DateShort), Exam)
RecRange == Rec(<<"A">>, Str(DateRange), Quiz)
RecFeb30 == Rec(<<"B">>, Str(DateFeb30), Quiz)
RecWords == Rec(<<"A">>, Str(DateWords), Exam)
RecNumDate == Rec(<<"A">>, Num(<<"2", "0", "2", "5", "1", "0", "0", "1">>), Quiz)
RecNullDate == Rec(<<"B">>, Null, Exam)
RecNoDate == [assignment_name |-> Str(<<"A">>), assignment_type |-> Str(Quiz)]
RecNoType == [assignment_name |-> Str(<<"B">>), due_date |-> Str(Date1)]

ValidRecords == {RecA, RecB, RecShort}

RecordPool == ValidRecords \cup {RecRange, RecFeb30, RecWords, RecNumDate,
                                 RecNullDate, RecNoDate, RecNoType}

CourseCS101 == <<"C", "S", " ", "1", "0", "1", ":", " ", "I", "n", "t", "r", "o", "!">>

CoursePool == {CourseCS101, <<"C", "S", "1">>, <<"C", "S", "_", "1">>, <<"!", "?">>}

SeqsUpTo(S, n) == UNION {[1..k -> S] : k \in 0..n}

----------------------------------------------------------------------------
(* extract_deadlines_from_syllabus_tool, src/main.py 22-65.                *)
(* In the text of a response the units "{A}", "{B}", "{R}" and "{N}" each   *)
(* stand for the text of one JSON object, which holds no backquote.        *)

List(items) == [t |-> "list", s |-> items]
None == [t |-> "none", s |-> <<>>]
JSONDecodeError == [t |-> "JSONDecodeError", s |-> <<>>]

ObjectUnits == {"{A}", "{B}", "{R}", "{N}"}

ObjectOf(u) ==
    CASE u = "{A}" -> RecA [] u = "{B}" -> RecB
      [] u = "{R}" -> RecRange [] u = "{N}" -> RecNumDate

Whitespace == {" ", "\n"}

\* str.strip()
RECURSIVE Strip(_)
Strip(s) ==
    IF s = <<>> THEN s
    ELSE IF Head(s) \in Whitespace THEN Strip(Tail(s))
    ELSE IF s[Len(s)] \in Whitespace THEN Strip(SubSeq(s, 1, Len(s) - 1))
    ELSE s

\* str.replace(pat, ""): the occurrences of pat, found from the left and
\* not overlapping, are removed
RECURSIVE Remove(_, _)
Remove(s, pat) ==
    IF Len(s) < Len(pat) THEN s
    ELSE IF SubSeq(s, 1, Len(pat)) = pat
         THEN Remove(SubSeq(s, Len(pat) + 1, Len(s)), pat)
         ELSE <<Head(s)>> \o Remove(Tail(s), pat)

\* the backquote character (a string of TLA+ cannot hold it)
Backquote == "<backquote>"

Fence == <<Backquote, Backquote, Backquote>>
JsonFence == Fence \o <<"j", "s", "o", "n">>

\* CleanText that removes the marker ``` alone
CleanTextFenceOnly(text) == Remove(Strip(text), Fence)

\* line 55: response.text.strip().replace("```json", "").replace("```", "")
CleanText(text) == Remove(Remove(Strip(text), JsonFence), Fence)

\* the elements of the text of a JSON array, split at its commas
RECURSIVE SplitCommas(_)
SplitCommas(s) ==
    IF \A k \in 1..Len(s) : s[k] # ","
    THEN <<s>>
    ELSE LET c == CHOOSE k \in 1..Len(s) : s[k] = "," /\ \A j \in 1..(k - 1) : s[j] # ","
         IN <<SubSeq(s, 1, c - 1)>> \o SplitCommas(SubSeq(s, c + 1, Len(s)))

\* json.loads(text) on the JSON the model's alphabet can spell: null, a
\* number, a string, or an array of objects; JSONDecodeError otherwise
JsonLoads(text) ==
    LET u == Strip(text)
        n == Len(u)
    IN IF n = 0 THEN JSONDecodeError
       ELSE IF u = <<"n", "u", "l", "l">> THEN Null
       ELSE IF AllDigits(u) /\ (n = 1 \/ u[1] # "0") THEN Num(u)
       ELSE IF u[1] = "\"" THEN
           (IF n >= 2 /\ u[n] = "\""
               /\ \A k \in 2..(n - 1) : u[k] \notin {"\"", "\n"}
            THEN Str(SubSeq(u, 2, n - 1)) ELSE JSONDecodeError)
       ELSE IF u[1] = "[" THEN
           (IF n >= 2 /\ u[n] = "]"
            THEN LET inner == Strip(SubSeq(u, 2, n - 1))
                     parts == SplitCommas(inner)
                 IN IF inner = <<>> THEN List(<<>>)
                    ELSE IF \A k \in 1..Len(parts) :
                               /\ Len(Strip(parts[k])) = 1
                               /\ Strip(parts[k])[1] \in ObjectUnits
                         THEN List([k \in 1..Len(parts) |-> ObjectOf(Strip(parts[k])[1])])
                         ELSE JSONDecodeError
            ELSE JSONDecodeError)
       ELSE JSONDecodeError

\* line 53: response = model.generate_content(prompt)
GenerateContent ==
    /\ ext_pc = "generate"
    /\ IF model_reply.kind = "raises"
       THEN /\ ext_exc' = model_reply.exc
            /\ ext_pc' = "except"
            /\ UNCHANGED response
       ELSE /\ response' = [bound |-> TRUE, kind |-> model_reply.kind,
                            text |-> model_reply.text]
            /\ ext_pc' = "loads"
            /\ UNCHANGED ext_exc
    /\ UNCHANGED <<builderVars, syllabus_text, model_reply, extracted_data,
                   ps_pc, ps_result>>

\* lines 55-58: response.text is read, cleaned and parsed, and the value is
\* returned
LoadJson ==
    /\ ext_pc = "loads"
    /\ IF response.kind = "no_text"
       THEN /\ ext_exc' = "AttributeError"
            /\ ext_pc' = "except"
            /\ UNCHANGED extracted_data
       ELSE IF response.kind = "blocked"
       THEN /\ ext_exc' = "ValueError"
            /\ ext_pc' = "except"
            /\ UNCHANGED extracted_data
       ELSE LET v == JsonLoads(CleanText(response.text))
            IN IF v.t = "JSONDecodeError"
               THEN /\ ext_exc' = "JSONDecodeError"
                    /\ ext_pc' = "except"
                    /\ UNCHANGED extracted_data
               ELSE /\ extracted_data' = v
                    /\ ext_pc' = "returned"
                    /\ UNCHANGED ext_exc
    /\ UNCHANGED <<builderVars, syllabus_text, model_reply, response, ps_pc,
                   ps_result>>

\* lines 59-65: the except clauses. The first prints response.text: with
\* response unbound that raises UnboundLocalError, with a response without
\* text it raises AttributeError, and either leaves the function
Except ==
    /\ ext_pc = "except"
    /\ IF ext_exc \in {"JSONDecodeError", "AttributeError"}
       THEN IF ~response.bound
            THEN /\ ext_pc' = "propagated"
                 /\ ext_exc' = "UnboundLocalError"
                 /\ UNCHANGED extracted_data
            ELSE IF response.kind = "no_text"
            THEN /\ ext_pc' = "propagated"
                 /\ ext_exc' = "AttributeError"
                 /\ UNCHANGED extracted_data
            ELSE /\ ext_pc' = "returned"
                 /\ extracted_data' = List(<<>>)
                 /\ UNCHANGED ext_exc
       ELSE /\ ext_pc' = "returned"
            /\ extracted_data' = List(<<>>)
            /\ UNCHANGED ext_exc
    /\ UNCHANGED <<builderVars, syllabus_text, model_reply, response, ps_pc,
                   ps_result>>

----------------------------------------------------------------------------
(* process_syllabus, src/main.py 110-129. It runs the builder as           *)
(* invocation 1.                                                           *)

FailureStatus == "Could not extract any deadlines."
SuccessStatus == "Successfully extracted deadlines!"

\* the truth value Python gives a JSON value
Truthy(v) ==
    CASE v.t = "list" -> v.s # <<>>
      [] v.t = "str" -> v.s # <<>>
      [] v.t = "num" -> NumVal(v.s) # 0
      [] v.t = "null" -> FALSE

\* line 115: the extractor is called
CallExtractor ==
    /\ ps_pc = "start"
    /\ ps_pc' = "extracting"
    /\ ext_pc' = "generate"
    /\ UNCHANGED <<builderVars, syllabus_text, model_reply, response, ext_exc,
                   extracted_data, ps_result>>

\* AfterExtractor with the test "extracted_data is None" in place of
\* "not extracted_data"
AfterExtractorIsNone ==
    /\ ps_pc = "extracting"
    /\ ext_pc = "returned"
    /\ IF extracted_data.t = "null"
       THEN /\ ps_result' = [status |-> FailureStatus, df |-> None, path |-> None]
            /\ ps_pc' = "done"
            /\ UNCHANGED <<deadlines, pc>>
       ELSE IF extracted_data.t # "list"
       THEN /\ ps_pc' = "propagated"
            /\ UNCHANGED <<deadlines, pc, ps_result>>
       ELSE /\ ps_pc' = "building"
            /\ deadlines' = [deadlines EXCEPT ![1] = extracted_data.s]
            /\ pc' = [pc EXCEPT ![1] = "ready"]
            /\ UNCHANGED ps_result
    /\ UNCHANGED <<course_name, idx, cal, out, offset, filepath, ret, exc, dirs,
                   fs, log, syllabus_text, model_reply, response, ext_pc,
                   ext_exc, extracted_data>>

\* lines 117-126: an empty result gives the failure triple; otherwise the
\* table is built (pd.DataFrame raises ValueError for a value that is no
\* list) and the builder is called
AfterExtractor ==
    /\ ps_pc = "extracting"
    /\ ext_pc = "returned"
    /\ IF ~Truthy(extracted_data)
       THEN /\ ps_result' = [status |-> FailureStatus, df |-> None, path |-> None]
            /\ ps_pc' = "done"
            /\ UNCHANGED <<deadlines, pc>>
       ELSE IF extracted_data.t # "list"
       THEN /\ ps_pc' = "propagated"
            /\ UNCHANGED <<deadlines, pc, ps_result>>
       ELSE /\ ps_pc' = "building"
            /\ deadlines' = [deadlines EXCEPT ![1] = extracted_data.s]
            /\ pc' = [pc EXCEPT ![1] = "ready"]
            /\ UNCHANGED ps_result
    /\ UNCHANGED <<course_name, idx, cal, out, offset, filepath, ret, exc, dirs,
                   fs, log, syllabus_text, model_reply, response, ext_pc,
                   ext_exc, extracted_data>>

\* an exception that left the extractor leaves process_syllabus
ExtractorRaised ==
    /\ ps_pc = "extracting"
    /\ ext_pc = "propagated"
    /\ ps_pc' = "propagated"
    /\ UNCHANGED <<builderVars, syllabus_text, model_reply, response, ext_pc,
                   ext_exc, extracted_data, ps_result>>

\* line 129: the builder has returned
ReturnResults ==
    /\ ps_pc = "building"
    /\ pc[1] = "returned"
    /\ ps_result' = [status |-> SuccessStatus, df |-> extracted_data,
                     path |-> Str(ret[1])]
    /\ ps_pc' = "done"
    /\ UNCHANGED <<builderVars, syllabus_text, model_reply, response, ext_pc,
                   ext_exc, extracted_data>>

\* an exception that left the builder leaves process_syllabus
BuilderRaised ==
    /\ ps_pc = "building"
    /\ pc[1] = "raised"
    /\ ps_pc' = "propagated"
    /\ UNCHANGED <<builderVars, syllabus_text, model_reply, response, ext_pc,
                   ext_exc, extracted_data, ps_result>>

\* the pipeline before process_syllabus is called, and while the builder
\* is called on its own
InitPipeline ==
    /\ response = [bound |-> FALSE, kind |-> "none", text |-> <<>>]
    /\ ext_pc = "idle"
    /\ ext_exc = "none"
    /\ extracted_data = None
    /\ ps_pc = "start"
    /\ ps_result = [status |-> "", df |-> None, path |-> None]

NoReply == [kind |-> "none", exc |-> "none", text |-> <<>>, content |-> <<>>,
            fenced |-> FALSE]

----------------------------------------------------------------------------
(* generate_ical_file_tool(course_name, deadlines), src/main.py 68-101.    *)
(* Two invocations, 1 and 2, share the disk (dirs, fs).                    *)

Runs == {1, 2}

\* what one pass of the try block of the for loop does with item:
\* "add" (the event joins cal.events), "skip" (ValueError or KeyError is
\* caught, the item is skipped) or "TypeError" (not caught by the except
\* clause: it leaves the function)
ItemOutcome(item) ==
    IF "due_date" \notin DOMAIN item THEN "skip"                  \* KeyError
    ELSE IF item.due_date.t # "str" THEN "TypeError"              \* strptime(not str)
    ELSE IF Strptime(item.due_date.s) = NoDate THEN "skip"        \* ValueError
    ELSE IF ~({"assignment_name", "assignment_type"} \subseteq DOMAIN item)
         THEN "skip"                                              \* KeyError
    ELSE "add"

\* the Event object built for item: name, begin and the all-day flag; uid is
\* the identity of the object, the invocation and the pass that built it
NewEvent(uid, course, item) ==
    [uid |-> uid,
     name |-> EventName(course, item.assignment_name.s, item.assignment_type.s),
     begin |-> Strptime(item.due_date.s),
     all_day |-> TRUE]

\* AddEvent for a collection that takes two events of the same name and date
\* for one
AddEventDedup(events, event) ==
    IF \E e \in events : e.name = event.name /\ e.begin = event.begin
    THEN events
    ELSE events \cup {event}

\* cal.events.add(event): cal.events is a set of Event objects
AddEvent(events, event) == events \cup {event}

\* the units of a calendar file
Header == [kind |-> "BEGIN:VCALENDAR", name |-> <<>>, begin |-> NoDate, all_day |-> FALSE]
Footer == [kind |-> "END:VCALENDAR", name |-> <<>>, begin |-> NoDate, all_day |-> FALSE]
Hole == [kind |-> "NUL", name |-> <<>>, begin |-> NoDate, all_day |-> FALSE]
VEvent(e) == [kind |-> "VEVENT", name |-> e.name, begin |-> e.begin, all_day |-> e.all_day]

\* the orders in which iterating the set events can yield its elements
Orders(events) ==
    {o \in [1..Cardinality(events) -> events] :
        \A a, b \in DOMAIN o : a # b => o[a] # o[b]}

\* iter(cal): the calendar serialized with its events in the order o
Serialize(o) == <<Header>> \o [k \in DOMAIN o |-> VEvent(o[k])] \o <<Footer>>

\* write(data) at position off of a file holding old: the file grows, with a
\* hole of NUL where it was shorter than off
WriteAt(old, off, data) ==
    [k \in 1..(IF Len(old) > off + Len(data) THEN Len(old) ELSE off + Len(data)) |->
        IF k > off /\ k <= off + Len(data) THEN data[k - off]
        ELSE IF k <= Len(old) THEN old[k]
        ELSE Hole]

\* Call with one Calendar object shared by the invocations, created once
\* outside the function
CallSharedCalendar(p) ==
    /\ pc[p] = "ready"
    /\ IF deadlines[p] = <<>>
       THEN /\ pc' = [pc EXCEPT ![p] = "returned"]
            /\ ret' = [ret EXCEPT ![p] = <<>>]
            /\ UNCHANGED <<dirs, cal, idx>>
       ELSE /\ pc' = [pc EXCEPT ![p] = "loop"]
            /\ dirs' = dirs \cup {OutputDir}
            /\ cal' = [cal EXCEPT ![p] = UNION {cal[q] : q \in Runs}]
            /\ idx' = [idx EXCEPT ![p] = 1]
            /\ UNCHANGED ret
    /\ UNCHANGED <<pipelineVars, course_name, deadlines, out, offset, filepath, exc,
                   fs, log>>

\* lines 73-78: the call, the test of deadlines, makedirs and Calendar()
Call(p) ==
    /\ pc[p] = "ready"
    /\ IF deadlines[p] = <<>>
       THEN /\ pc' = [pc EXCEPT ![p] = "returned"]
            /\ ret' = [ret EXCEPT ![p] = <<>>]
            /\ UNCHANGED <<dirs, cal, idx>>
       ELSE /\ pc' = [pc EXCEPT ![p] = "loop"]
            /\ dirs' = dirs \cup {OutputDir}
            /\ cal' = [cal EXCEPT ![p] = {}]
            /\ idx' = [idx EXCEPT ![p] = 1]
            /\ UNCHANGED ret
    /\ UNCHANGED <<pipelineVars, course_name, deadlines, out, offset, filepath, exc,
                   fs, log>>

\* lines 80-91: one pass of the for loop
LoopItem(p) ==
    /\ pc[p] = "loop"
    /\ idx[p] <= Len(deadlines[p])
    /\ LET item == deadlines[p][idx[p]]
           outcome == ItemOutcome(item)
       IN /\ IF outcome = "TypeError"
             THEN /\ pc' = [pc EXCEPT ![p] = "raised"]
                  /\ exc' = [exc EXCEPT ![p] = "TypeError"]
                  /\ UNCHANGED <<idx, cal>>
             ELSE /\ idx' = [idx EXCEPT ![p] = idx[p] + 1]
                  /\ cal' = [cal EXCEPT ![p] =
                               IF outcome = "add"
                               THEN AddEvent(cal[p], NewEvent(<<p, idx[p]>>, course_name[p], item))
                               ELSE cal[p]]
                  /\ UNCHANGED <<pc, exc>>
    /\ UNCHANGED <<pipelineVars, course_name, deadlines, out, offset, filepath, ret, dirs, fs,
                   log>>

\* OpenFile with a mode that keeps the content of an existing file,
\* open(filepath, 'r+')
OpenFileNoTruncate(p) ==
    /\ pc[p] = "loop"
    /\ idx[p] > Len(deadlines[p])
    /\ LET path == FilePath(course_name[p])
       IN /\ filepath' = [filepath EXCEPT ![p] = path]
          /\ fs' = (path :> (IF path \in DOMAIN fs THEN fs[path] ELSE <<>>)) @@ fs
    /\ offset' = [offset EXCEPT ![p] = 0]
    /\ pc' = [pc EXCEPT ![p] = "writelines"]
    /\ log' = Append(log, [op |-> "open", by |-> p])
    /\ UNCHANGED <<pipelineVars, course_name, deadlines, idx, cal, out, ret, exc,
                   dirs>>

\* lines 94-97: the file name, and open(filepath, 'w'), which creates the
\* file or truncates it
OpenFile(p) ==
    /\ pc[p] = "loop"
    /\ idx[p] > Len(deadlines[p])
    /\ LET path == FilePath(course_name[p])
       IN /\ filepath' = [filepath EXCEPT ![p] = path]
          /\ fs' = (path :> <<>>) @@ fs
    /\ offset' = [offset EXCEPT ![p] = 0]
    /\ pc' = [pc EXCEPT ![p] = "writelines"]
    /\ log' = Append(log, [op |-> "open", by |-> p])
    /\ UNCHANGED <<pipelineVars, course_name, deadlines, idx, cal, out, ret, exc,
                   dirs>>

\* line 98: f.writelines(cal) iterates cal, the serialized calendar
Writelines(p) ==
    /\ pc[p] = "writelines"
    /\ \E o \in Orders(cal[p]) : out' = [out EXCEPT ![p] = Serialize(o)]
    /\ pc' = [pc EXCEPT ![p] = "flush"]
    /\ UNCHANGED <<pipelineVars, course_name, deadlines, idx, cal, offset, filepath,
                   ret, exc, dirs, fs, log>>

\* line 98: the buffered writer hands the next n units to the file
Flush(p) ==
    /\ pc[p] = "flush"
    /\ offset[p] < Len(out[p])
    /\ \E n \in 1..(Len(out[p]) - offset[p]) :
          /\ fs' = [fs EXCEPT ![filepath[p]] =
                       WriteAt(@, offset[p], SubSeq(out[p], offset[p] + 1, offset[p] + n))]
          /\ offset' = [offset EXCEPT ![p] = offset[p] + n]
    /\ UNCHANGED <<pipelineVars, course_name, deadlines, pc, idx, cal, out, filepath,
                   ret, exc, dirs, log>>

\* Return giving the empty string when the calendar holds no event
ReturnEmptyIfNoEvent(p) ==
    /\ pc[p] = "flush"
    /\ offset[p] = Len(out[p])
    /\ pc' = [pc EXCEPT ![p] = "returned"]
    /\ ret' = [ret EXCEPT ![p] = IF cal[p] = {} THEN <<>> ELSE filepath[p]]
    /\ log' = Append(log, [op |-> "close", by |-> p])
    /\ UNCHANGED <<pipelineVars, course_name, deadlines, idx, cal, out, offset,
                   filepath, exc, dirs, fs>>

\* lines 99-101: the with block closes f; return filepath
Return(p) ==
    /\ pc[p] = "flush"
    /\ offset[p] = Len(out[p])
    /\ pc' = [pc EXCEPT ![p] = "returned"]
    /\ ret' = [ret EXCEPT ![p] = filepath[p]]
    /\ log' = Append(log, [op |-> "close", by |-> p])
    /\ UNCHANGED <<pipelineVars, course_name, deadlines, idx, cal, out, offset,
                   filepath, exc, dirs, fs>>

Finished(p) == pc[p] \in {"returned", "raised"}

InitBuilder ==
    /\ idx = [p \in Runs |-> 0]
    /\ cal = [p \in Runs |-> {}]
    /\ out = [p \in Runs |-> <<>>]
    /\ offset = [p \in Runs |-> 0]
    /\ filepath = [p \in Runs |-> <<>>]
    /\ ret = [p \in Runs |-> <<>>]
    /\ exc = [p \in Runs |-> "none"]
    /\ dirs = {}
    /\ fs = <<>>
    /\ log = <<>>

----------------------------------------------------------------------------
(* Spec: the builder called twice in sequence with the same arguments.     *)

Init ==
    /\ \E c \in CoursePool, d \in SeqsUpTo(RecordPool, MaxRecords) :
          /\ course_name = [p \in Runs |-> c]
          /\ deadlines = [p \in Runs |-> d]
    /\ pc = [p \in Runs |-> "ready"]
    /\ InitBuilder
    /\ InitPipeline
    /\ syllabus_text = <<>>
    /\ model_reply = NoReply

\* the second call starts once the first has ended
InSequence(p) == p = 1 \/ Finished(1)

CallInSequence(p) == InSequence(p) /\ Call(p)

Next ==
    \E p \in Runs :
        \/ CallInSequence(p)
        \/ LoopItem(p)
        \/ OpenFile(p)
        \/ Writelines(p)
        \/ Flush(p)
        \/ Return(p)

Spec == Init /\ [][Next]_vars

----------------------------------------------------------------------------
(* SpecRace: two invocations with the same course name and different       *)
(* records, their steps interleaved in every way.                          *)

\* longest deadlines list of an invocation of the race
MaxRaceRecords == 2

RaceRecordPool == {RecA, RecB}

InitRace ==
    /\ \E d1, d2 \in SeqsUpTo(RaceRecordPool, MaxRaceRecords) \ {<<>>} :
          /\ d1 # d2
          /\ deadlines = <<d1, d2>>
    /\ course_name = [p \in Runs |-> <<"C", "S", "1">>]
    /\ pc = [p \in Runs |-> "ready"]
    /\ InitBuilder
    /\ InitPipeline
    /\ syllabus_text = <<>>
    /\ model_reply = NoReply

NextRace ==
    \E p \in Runs :
        \/ Call(p)
        \/ LoopItem(p)
        \/ OpenFile(p)
        \/ Writelines(p)
        \/ Flush(p)
        \/ Return(p)

SpecRace == InitRace /\ [][NextRace]_vars

----------------------------------------------------------------------------
(* SpecPipeline: process_syllabus called once, the model answering in any  *)
(* of the ways of Replies.                                                 *)

\* most objects in the JSON array of a reply
MaxJsonItems == 2

\* "[" + ", ".join(objects) + "]"
RECURSIVE JoinObjects(_)
JoinObjects(us) ==
    IF us = <<>> THEN <<>>
    ELSE IF Len(us) = 1 THEN <<us[1]>>
    ELSE <<us[1], ",", " ">> \o JoinObjects(Tail(us))

ArrayText(us) == <<"[">> \o JoinObjects(us) \o <<"]">>

\* the JSON contents a reply can carry: arrays of objects, scalars, a
\* string that holds a fence marker, an array cut short, and prose
Contents ==
    {ArrayText(us) : us \in SeqsUpTo(ObjectUnits, MaxJsonItems)}
    \cup {<<"n", "u", "l", "l">>, <<"0">>, <<"7">>,
          <<"\"">> \o Fence \o <<"\"">>,
          <<"\"", "a">> \o JsonFence \o <<"\"">>,
          <<" ", "[", "{A}", "]", "\n">>,
          <<"[", "{A}", ",">>,
          <<"S", "u", "r", "e", "!">>}

\* C wrapped in a leading ```json and a trailing ```
Fenced(c) == JsonFence \o <<"\n">> \o c \o <<"\n">> \o Fence

Replies ==
    {[kind |-> "raises", exc |-> e, text |-> <<>>, content |-> <<>>, fenced |-> FALSE] :
        e \in {"Exception", "AttributeError"}}
    \cup {[kind |-> k, exc |-> "none", text |-> <<>>, content |-> <<>>, fenced |-> FALSE] :
        k \in {"no_text", "blocked"}}
    \cup {[kind |-> "text", exc |-> "none", text |-> c, content |-> c, fenced |-> FALSE] :
        c \in Contents}
    \cup {[kind |-> "text", exc |-> "none", text |-> Fenced(c), content |-> c, fenced |-> TRUE] :
        c \in Contents}

SyllabusPool == {<<>>, <<"Q", "u", "i", "z", " ", "1">>}

InitProcess ==
    /\ \E c \in CoursePool : course_name = [p \in Runs |-> c]
    /\ syllabus_text \in SyllabusPool
    /\ model_reply \in Replies
    /\ deadlines = [p \in Runs |-> <<>>]
    /\ InitBuilder
    /\ pc = [p \in Runs |-> "idle"]
    /\ InitPipeline

NextProcess ==
    \/ CallExtractor
    \/ GenerateContent
    \/ LoadJson
    \/ Except
    \/ AfterExtractor
    \/ ExtractorRaised
    \/ Call(1)
    \/ LoopItem(1)
    \/ OpenFile(1)
    \/ Writelines(1)
    \/ Flush(1)
    \/ Return(1)
    \/ ReturnResults
    \/ BuilderRaised

SpecPipeline == InitProcess /\ [][NextProcess]_vars

----------------------------------------------------------------------------
(* What the claims speak of. *)

\* p has returned a path, and the file at that path has not been opened
\* again since p log it
JustWritten(p) ==
    /\ pc[p] = "returned"
    /\ deadlines[p] # <<>>
    /\ log # <<>> /\ log[Len(log)] = [op |-> "close", by |-> p]
    /\ \A q \in Runs \ {p} : pc[q] \notin {"writelines", "flush"}

\* the calendar date each well-formed due_date of the pool stands for
DueDateOf(rec) ==
    CASE rec = RecA -> [y |-> 2025, m |-> 10, d |-> 1]
      [] rec = RecB -> [y |-> 2025, m |-> 9, d |-> 15]
      [] rec = RecShort -> [y |-> 2024, m |-> 2, d |-> 29]

\* t reads "[<course>] - <name> (<type>)"
IsTitle(t, course, name, type) ==
    LET lc == Len(course)  ln == Len(name)  lt == Len(type) IN
    /\ Len(t) = lc + ln + lt + 8
    /\ t[1] = "["
    /\ SubSeq(t, 2, lc + 1) = course
    /\ SubSeq(t, lc + 2, lc + 5) = <<"]", " ", "-", " ">>
    /\ SubSeq(t, lc + 6, lc + ln + 5) = name
    /\ SubSeq(t, lc + ln + 6, lc + ln + 7) = <<" ", "(">>
    /\ SubSeq(t, lc + ln + 8, lc + ln + lt + 7) = type
    /\ t[lc + ln + lt + 8] = ")"

\* unit u is the all-day event of the well-formed record rec
IsEventOf(u, course, rec) ==
    /\ u.kind = "VEVENT"
    /\ u.all_day
    /\ u.begin = DueDateOf(rec)
    /\ IsTitle(u.name, course, rec.assignment_name.s, rec.assignment_type.s)

AllValid(d) == \A k \in 1..Len(d) : d[k] \in ValidRecords

\* the records whose due_date is absent or does not parse
BadDateRecords == {RecRange, RecFeb30, RecWords, RecNoDate}

\* C1: for a non-empty list of records that all have the three keys and a
\* due_date that parses, the file written holds exactly one all-day event
\* per record, as many events as records, each with the record's date and
\* the title "[<course_name>] - <assignment_name> (<assignment_type>)".
C1_OneEventPerRecord ==
    \A p \in Runs :
        (deadlines[p] # <<>> /\ AllValid(deadlines[p])) =>
            /\ pc[p] # "raised"
            /\ JustWritten(p) =>
                  LET f == fs[ret[p]]
                      n == Len(deadlines[p])
                  IN /\ Len(f) = n + 2
                     /\ f[1] = Header
                     /\ f[n + 2] = Footer
                     /\ \E b \in Permutations(1..n) :
                           \A k \in 1..n :
                               IsEventOf(f[k + 1], course_name[p], deadlines[p][b[k]])

C1_Witness ==
    /\ JustWritten(1)
    /\ deadlines[1] = <<RecA, RecShort>>
    /\ Len(fs[ret[1]]) = 4

\* how many units of the sequence f are equal to u
Count(f, u) == Cardinality({k \in 1..Len(f) : f[k] = u})

\* C2: whatever the due_date of each record (absent, malformed, out of
\* range or not a string), the call ends without raising, and for records
\* that have their name and type the file holds the events of exactly the
\* records whose due_date parses.
C2_NeverRaises ==
    \A p \in Runs :
        /\ pc[p] # "raised"
        /\ ( /\ JustWritten(p)
             /\ \A k \in 1..Len(deadlines[p]) :
                   {"assignment_name", "assignment_type"} \subseteq DOMAIN deadlines[p][k] )
           => Len(fs[ret[p]]) =
                  2 + Cardinality({k \in 1..Len(deadlines[p]) :
                                      deadlines[p][k] \in ValidRecords})

\* C3 as stated: a non-empty list of which every record is skipped for its
\* date makes the call return the empty string.
C3_AllSkippedReturnsEmpty ==
    \A p \in Runs :
        ( /\ pc[p] = "returned"
          /\ deadlines[p] # <<>>
          /\ \A k \in 1..Len(deadlines[p]) : deadlines[p][k] \in BadDateRecords )
        => ret[p] = <<>>

\* C3 as amended: a non-empty list of which every record is skipped for its
\* date makes the call return the path of the file, never the empty
\* string, and the file written holds a calendar without events.
C3_AllSkippedReturnsPath ==
    \A p \in Runs :
        ( /\ pc[p] = "returned"
          /\ deadlines[p] # <<>>
          /\ \A k \in 1..Len(deadlines[p]) : deadlines[p][k] \in BadDateRecords )
        => /\ ret[p] # <<>>
           /\ ret[p] \in DOMAIN fs
           /\ SubSeq(ret[p], 1, Len(OutputDir)) = OutputDir
           /\ JustWritten(p) => fs[ret[p]] = <<Header, Footer>>

C3_Witness ==
    /\ JustWritten(1)
    /\ deadlines[1] = <<RecRange, RecNoDate>>
    /\ fs[ret[1]] = <<Header, Footer>>

\* C6: the file written is named by the alphanumeric characters of the
\* course name in their order, every other character removed, followed by
\* "_schedule.ics", in the directory calendars; "CS 101: Intro!" gives
\* CS101Intro_schedule.ics. The name is a function of the course name alone.
C6_FileName ==
    \A p \in Runs :
        (pc[p] = "returned" /\ deadlines[p] # <<>>) =>
            LET c == course_name[p]
                pos == {k \in 1..Len(c) : c[k] \in Letters \cup Digits}
                n == Cardinality(pos)
                path == ret[p]
                ld == Len(OutputDir)
            IN /\ path \in DOMAIN fs
               /\ Len(path) = ld + 1 + n + 13
               /\ SubSeq(path, 1, ld + 1) = OutputDir \o <<"/">>
               /\ \A k \in pos :
                     path[ld + 1 + Cardinality({j \in pos : j <= k})] = c[k]
               /\ SubSeq(path, ld + n + 2, ld + n + 14) =
                     <<"_", "s", "c", "h", "e", "d", "u", "l", "e", ".", "i", "c", "s">>
               /\ c = CourseCS101 =>
                     SubSeq(path, ld + 2, Len(path)) =
                        <<"C", "S", "1", "0", "1", "I", "n", "t", "r", "o",
                          "_", "s", "c", "h", "e", "d", "u", "l", "e", ".", "i", "c", "s">>

C6_Witness ==
    /\ pc[1] = "returned"
    /\ course_name[1] = CourseCS101
    /\ deadlines[1] = <<RecB>>
    /\ ret[1] \in DOMAIN fs

BothReturnedValid ==
    /\ pc[1] = "returned" /\ pc[2] = "returned"
    /\ course_name[1] = course_name[2]
    /\ deadlines[1] = deadlines[2]
    /\ deadlines[1] # <<>> /\ AllValid(deadlines[1])

\* C8 as stated: the same course name and the same valid records, run
\* twice in sequence, give the same path, and the file after the second
\* run has the content it had after the first.
C8_SameContent ==
    BothReturnedValid =>
        /\ ret[1] = ret[2]
        /\ fs[ret[2]] = out[1]

\* C8 as amended: the same course name and the same valid records, run
\* twice in sequence, give the same path; the second run replaces the file:
\* after it the file holds as many events as there are records, each event
\* of the first run as often as the first run wrote it, and nothing more.
\* The order of the events may differ between the two runs. (out[1] is the
\* content of the file when the first run returned.)
C8_SameEvents ==
    /\ (JustWritten(1) /\ pc[2] = "ready") => fs[ret[1]] = out[1]
    /\ BothReturnedValid =>
          /\ ret[1] = ret[2]
          /\ Len(fs[ret[2]]) = Len(deadlines[2]) + 2
          /\ Len(fs[ret[2]]) = Len(out[1])
          /\ \A k \in 1..Len(out[1]) :
                Count(fs[ret[2]], out[1][k]) = Count(out[1], out[1][k])

C8_Witness ==
    /\ BothReturnedValid
    /\ deadlines[1] = <<RecA, RecB>>
    /\ fs[ret[2]] # out[1]

\* C9 as stated: the events of the file are in the order of the records,
\* and two equal records give two events.
C9_InputOrder ==
    \A p \in Runs :
        (JustWritten(p) /\ AllValid(deadlines[p])) =>
            LET f == fs[ret[p]] IN
            /\ Len(f) = Len(deadlines[p]) + 2
            /\ \A k \in 1..Len(deadlines[p]) :
                  IsEventOf(f[k + 1], course_name[p], deadlines[p][k])

\* C9 as amended: nothing is deduplicated: each record with the three keys
\* and a due_date that parses has in the file as many events as the list
\* holds records equal to it, so two equal records give two events. The
\* order of the events in the file is not fixed by the order of the records.
C9_NoDedup ==
    \A p \in Runs :
        (JustWritten(p) /\ AllValid(deadlines[p])) =>
            LET f == fs[ret[p]]
                d == deadlines[p]
            IN \A k \in 1..Len(d) :
                  Cardinality({j \in 1..Len(f) : IsEventOf(f[j], course_name[p], d[k])})
                      = Cardinality({j \in 1..Len(d) : d[j] = d[k]})

C9_Witness ==
    /\ JustWritten(1)
    /\ deadlines[1] = <<RecB, RecB>>
    /\ Len(fs[ret[1]]) = 4
    /\ fs[ret[1]][2] = fs[ret[1]][3]

BothReturned == pc[1] = "returned" /\ pc[2] = "returned"

\* C10 as stated: once both concurrent invocations have finished, the file
\* is exactly the complete output of one of the two.
C10_LastWriterWins ==
    BothReturned => fs[ret[1]] \in {out[1], out[2]}

\* the invocation that opened the file last
LastOpener == log[CHOOSE k \in 1..Len(log) :
                     /\ log[k].op = "open"
                     /\ \A j \in 1..Len(log) : log[j].op = "open" => j <= k].by

\* q opened the file only after the other invocation had closed it
OpenedAfterClose(q) ==
    \E j, k \in 1..Len(log) :
        /\ j < k
        /\ log[j].op = "close" /\ log[j].by # q
        /\ log[k] = [op |-> "open", by |-> q]

\* C10 as amended: once both invocations have finished, the file is the
\* complete output of the later one whenever that one opened the file
\* after the other had closed it. When their open and write steps
\* interleave, the file need not be the output of either: it is at least
\* as long as the output of the invocation that opened last and at most as
\* long as the longer output, and each unit of it is the unit one of the
\* two outputs has at this position, or a hole left by a truncation.
C10_MixOfBoth ==
    BothReturned =>
        LET f == fs[ret[1]] IN
        /\ ret[1] = ret[2]
        /\ \A q \in Runs : OpenedAfterClose(q) => f = out[q]
        /\ Len(f) >= Len(out[LastOpener])
        /\ Len(f) <= (IF Len(out[1]) > Len(out[2]) THEN Len(out[1]) ELSE Len(out[2]))
        /\ \A k \in 1..Len(f) :
              \/ \E q \in Runs : k <= Len(out[q]) /\ f[k] = out[q][k]
              \/ f[k] = Hole /\ k > Len(out[LastOpener])

C10_Witness ==
    /\ BothReturned
    /\ deadlines = <<(<<RecB>>), <<RecA, RecA>>>>
    /\ ~OpenedAfterClose(1) /\ ~OpenedAfterClose(2)
    /\ fs[ret[1]] \notin {out[1], out[2]}
    /\ \E j, k \in 1..Len(fs[ret[1]]) :
          /\ fs[ret[1]][j] = out[1][2]
          /\ fs[ret[1]][k] = out[2][2]

\* C4: the extractor never lets an exception reach its caller; when the
\* model call raises, when the response has no text attribute or when the
\* cleaned text is no JSON, it returns an empty list.
C4_NeverPropagates ==
    /\ ext_pc # "propagated"
    /\ ( /\ ext_pc = "returned"
         /\ \/ model_reply.kind \in {"raises", "no_text"}
            \/ model_reply.kind = "text"
               /\ JsonLoads(CleanText(model_reply.text)).t = "JSONDecodeError" )
       => extracted_data = List(<<>>)

\* the extractor has returned an empty result
EmptyExtraction ==
    /\ ext_pc = "returned"
    /\ \/ extracted_data.t \in {"list", "str"} /\ Len(extracted_data.s) = 0
       \/ extracted_data.t = "null"
       \/ extracted_data.t = "num" /\ extracted_data.s = <<"0">>

\* C5: whenever the extractor yields an empty result, process_syllabus
\* returns the fixed failure status with None for the table and None for
\* the path, whatever the course name and the syllabus text, and the
\* builder is not called: no directory and no file is created.
C5_EmptyExtractionFails ==
    (EmptyExtraction /\ ps_pc # "extracting") =>
        /\ ps_pc = "done"
        /\ ps_result = [status |-> FailureStatus, df |-> None, path |-> None]
        /\ pc[1] = "idle"
        /\ dirs = {}
        /\ fs = <<>>
        /\ log = <<>>

C5_Witness ==
    /\ EmptyExtraction
    /\ ps_pc = "done"
    /\ model_reply.content = <<"S", "u", "r", "e", "!">>
    /\ syllabus_text # <<>>
    /\ ps_result.path = None

\* C7: for every JSON content C, the extractor returns for the response
\* C wrapped in a leading ```json and a trailing ``` what it returns for
\* the response C; an array of objects is returned as the list of these
\* objects.
C7_FencedParsesAlike ==
    (ext_pc = "returned" /\ model_reply.kind = "text" /\ model_reply.fenced) =>
        /\ extracted_data =
              (LET v == JsonLoads(CleanText(model_reply.content))
               IN IF v.t = "JSONDecodeError" THEN List(<<>>) ELSE v)
        /\ \A us \in SeqsUpTo(ObjectUnits, MaxJsonItems) :
              model_reply.content = ArrayText(us) =>
                  extracted_data = List([k \in 1..Len(us) |-> ObjectOf(us[k])])

C7_Witness ==
    /\ ext_pc = "returned"
    /\ model_reply.fenced
    /\ model_reply.content = ArrayText(<<"{A}", "{B}">>)
    /\ response.text # model_reply.content
    /\ extracted_data = List(<<RecA, RecB>>)

====
